---- MODULE Spec2Model ----
(***************************************************************************)
(* A model of the compgraph library: the Graph plan and its Queue          *)
(* (src/lib/graph.py) and the streaming operators Reduce, Join, the        *)
(* built-in joiners and the Project mapper (src/lib/operations.py).        *)
(*                                                                         *)
(* Python objects live in a heap (a sequence of Graph objects, addressed   *)
(* by index), so that copy.deepcopy and aliasing are what they are in the  *)
(* code.  Python lists are sequences with the same orientation: list.pop() *)
(* removes the LAST element, list.append adds at the end.                  *)
(***************************************************************************)
EXTENDS Integers, Sequences, FiniteSets, TLC

VARIABLES
    heap,       \* the Graph objects ever constructed: heap[i] is object i
    snap,       \* snap[i]: the plan object i had when it was constructed
    handles,    \* the objects returned to the caller by constructors/combinators
    origin,     \* origin[i]: the call that constructed object i
    result,     \* the outcome of the last Graph.gen_run / Graph.run call
    queue,      \* a Queue object driven by arbitrary push/pop calls
    pushed,     \* the elements pushed on queue (constructor's sequence first)
    popped,     \* the elements queue.pop() returned, in order
    stage,      \* the operation being executed: Map, Reduce, Join or a joiner
    rows,       \* its input stream (the left stream of a join)
    rows_b,     \* the right stream of a join (args[0])
    pos,        \* rows of the input stream read so far
    pos_b,      \* rows of the right stream read so far
    previous_key,   \* Reduce: <<>> for None, <<key>> otherwise
    group_block,    \* Reduce: the buffered rows
    key_a,      \* Join: key of the current left group (<<>>: empty_tuple)
    group_a,    \* Join: the current left group (<<>>: empty_iter)
    key_b,      \* Join: key of the current right group
    group_b,    \* Join: the current right group
    out,        \* the rows yielded so far
    calls,      \* the reducer / joiner invocations so far, with what each emitted
    status      \* "new", "running", "done", or "error" once an exception escaped

graphVars == <<heap, snap, handles, origin, result>>
queueVars == <<queue, pushed, popped>>
opVars == <<stage, rows, rows_b, pos, pos_b, previous_key, group_block,
           key_a, group_a, key_b, group_b, out, calls, status>>
vars == <<graphVars, queueVars, opVars>>

\* what the Graph operations, the Queue calls and the stream operations leave
\* alone
notGraphVars == <<queueVars, opVars>>
notQueueVars == <<graphVars, opVars>>
notOpVars == <<graphVars, queueVars>>

----------------------------------------------------------------------------
(* Bounds *)

MaxGraphs == 3      \* graphs the caller builds
MaxPush == 3        \* elements given to the stand-alone Queue
MaxRows == 3        \* rows of the input stream of a Map or Reduce
MaxSide == 2        \* rows of each input stream of a Join

----------------------------------------------------------------------------
(* Generic helpers on sequences *)

Reverse(s) == [i \in 1..Len(s) |-> s[Len(s) + 1 - i]]

Range(s) == {s[i] : i \in 1..Len(s)}

\* the elements of the set of naturals S in ascending order
RECURSIVE SortedSeq(_)
SortedSeq(S) ==
    IF S = {} THEN <<>>
    ELSE LET m == CHOOSE x \in S : \A y \in S : x <= y
         IN <<m>> \o SortedSeq(S \ {m})

\* position of x in the sequence s (x occurs in s)
IndexOf(s, x) == CHOOSE i \in 1..Len(s) : s[i] = x

----------------------------------------------------------------------------
(* class Queue *)

\* Queue.__init__(sequence)
QueueNew(sequence) ==
    [back_sequence |-> <<>>, front_sequence |-> Reverse(sequence)]

\* Queue.push(element)
QueuePush(q, element) ==
    [q EXCEPT !.back_sequence = Append(@, element)]

\* Queue.size()
QueueSize(q) == Len(q.back_sequence) + Len(q.front_sequence)

\* a pop that refills front_sequence without reversing back_sequence
QueuePopUnreversed(q) ==
    LET refilled == IF Len(q.front_sequence) = 0
                    THEN [front_sequence |-> q.back_sequence,
                          back_sequence |-> <<>>]
                    ELSE q
        n == Len(refilled.front_sequence)
    IN [queue |-> [refilled EXCEPT !.front_sequence = SubSeq(@, 1, n - 1)],
        element |-> refilled.front_sequence[n]]

\* Queue.pop(), called with size() > 0 (list.pop() of an empty list raises):
\* the queue after the call and the element returned
QueuePop(q) ==
    LET refilled == IF Len(q.front_sequence) = 0
                    THEN [front_sequence |-> Reverse(q.back_sequence),
                          back_sequence |-> <<>>]
                    ELSE q
        n == Len(refilled.front_sequence)
    IN [queue |-> [refilled EXCEPT !.front_sequence = SubSeq(@, 1, n - 1)],
        element |-> refilled.front_sequence[n]]

----------------------------------------------------------------------------
(* class Graph: construction *)

\* source identifiers, as lists of characters (gen_run slices the last four)
SourceNames == { <<"d">>, <<"d", ".", "t", "x", "t">> }

\* the operations a queue element holds in op[0]
UnaryOps == {"Map", "Reduce", "Sort"}

NoParser == "unset"      \* the attribute Graph.parser was never assigned
Parsers == {"json"}

\* Graph.__init__ followed by the attribute assignments of a constructor
NewGraph(name, parser) ==
    [kwarg_name |-> name, parser |-> parser, queue |-> QueueNew(<<>>)]

\* the elements a queue holds, oldest first
QueueItems(q) == Reverse(q.front_sequence) \o q.back_sequence

\* the Graph objects an element list refers to (op[1] of a join element)
Refs(g) == {op[2] : op \in {o \in Range(QueueItems(g.queue)) : Len(o) = 2}}

\* the objects reachable from object id (what deepcopy traverses)
RECURSIVE Reach(_, _)
Reach(h, id) == {id} \cup UNION {Reach(h, r) : r \in Refs(h[id])}

\* copy.deepcopy(h[id]): every reachable object is copied once (the memo),
\* references between the copies follow the references between the originals
DeepCopy(h, id) ==
    LET olds == SortedSeq(Reach(h, id))
        new(o) == Len(h) + IndexOf(olds, o)
        copyOp(op) == IF Len(op) = 2 THEN <<op[1], new(op[2])>> ELSE op
        copyList(l) == [i \in 1..Len(l) |-> copyOp(l[i])]
        copyObj(o) ==
            [h[o] EXCEPT !.queue =
                [back_sequence |-> copyList(h[o].queue.back_sequence),
                 front_sequence |-> copyList(h[o].queue.front_sequence)]]
    IN [heap |-> h \o [i \in 1..Len(olds) |-> copyObj(olds[i])],
        id |-> new(id)]

\* graph = copy.deepcopy(self); graph.queue.push(op); return graph
Chain(h, self, op) ==
    LET c == DeepCopy(h, self)
    IN [heap |-> [c.heap EXCEPT ![c.id].queue = QueuePush(@, op)],
        id |-> c.id]

\* the plan of object id: its source identifier and its stages, oldest first,
\* a join stage with the plan of its right graph
RECURSIVE PlanOf(_, _)
PlanOf(h, id) ==
    LET items == QueueItems(h[id].queue)
    IN [kwarg_name |-> h[id].kwarg_name,
        stages |-> [i \in 1..Len(items) |->
                      IF Len(items[i]) = 2
                      THEN <<items[i][1], PlanOf(h, items[i][2])>>
                      ELSE items[i]]]

----------------------------------------------------------------------------
(* class Graph: execution *)

\* graph.kwarg_name[-4:] == '.txt'
IsTxt(name) ==
    /\ Len(name) >= 4
    /\ SubSeq(name, Len(name) - 3, Len(name)) = <<".", "t", "x", "t">>

\* gen_run working on self itself instead of a copy
AliasForRun(h, self) == [heap |-> h, id |-> self]

\* graph = copy.deepcopy(self) at the head of gen_run
CopyForRun(h, self) == DeepCopy(h, self)

\* the source stream gen_run starts from: Graph.read_file(name, self.parser)
\* for a '.txt' name (reading self.parser raises when it was never assigned),
\* kwargs[name]() otherwise (raises when kwargs has no such name)
ResolveSource(g, kwargs) ==
    IF IsTxt(g.kwarg_name)
    THEN IF g.parser = NoParser
         THEN [status |-> "error", calls |-> <<>>,
               object |-> [source |-> <<>>, wrapped |-> <<>>]]
         ELSE [status |-> "ok", calls |-> <<>>,
               object |-> [source |-> <<"file", g.kwarg_name, g.parser>>,
                           wrapped |-> <<>>]]
    ELSE IF g.kwarg_name \notin kwargs
         THEN [status |-> "error", calls |-> <<>>,
               object |-> [source |-> <<>>, wrapped |-> <<>>]]
         ELSE [status |-> "ok", calls |-> <<g.kwarg_name>>,
               object |-> [source |-> <<"kwargs", g.kwarg_name>>,
                           wrapped |-> <<>>]]

RECURSIVE GenRun(_, _, _)
RECURSIVE RunLoop(_, _, _)

\* the while loop of gen_run on the graph object g; st carries the heap, the
\* stream object_ built so far (its source and the operations wrapped around
\* it, innermost first) and the producers called so far
RunLoop(st, g, kwargs) ==
    IF st.status # "ok" \/ QueueSize(st.heap[g].queue) = 0 THEN st
    ELSE LET p == QueuePop(st.heap[g].queue)
             op == p.element
             h1 == [st.heap EXCEPT ![g].queue = p.queue]
         IN IF Len(op) = 1
            THEN RunLoop([st EXCEPT !.heap = h1,
                                    !.object.wrapped = Append(@, op)],
                         g, kwargs)
            ELSE LET sub == GenRun(h1, op[2], kwargs)
                 IN RunLoop([heap |-> sub.heap,
                             status |-> sub.status,
                             calls |-> st.calls \o sub.calls,
                             object |-> [st.object EXCEPT !.wrapped =
                                           Append(@, <<op[1], sub.object>>)]],
                            g, kwargs)

\* Graph.gen_run(**kwargs) called on object self; kwargs is the set of names
\* the caller supplies producers for
GenRun(h, self, kwargs) ==
    LET c == CopyForRun(h, self)
        src == ResolveSource([c.heap[c.id] EXCEPT !.parser = h[self].parser],
                             kwargs)
    IN RunLoop([heap |-> c.heap, status |-> src.status,
                calls |-> src.calls, object |-> src.object],
               c.id, kwargs)

----------------------------------------------------------------------------
(* The caller: builds graphs and runs them *)

NoOrigin == [receiver |-> 0, stage |-> <<>>]
NoResult == [self |-> 0, kwargs |-> {}, status |-> "none", calls |-> <<>>,
             object |-> [source |-> <<>>, wrapped |-> <<>>]]

\* no graph has been constructed
NoGraphs ==
    /\ heap = <<>>
    /\ snap = <<>>
    /\ handles = {}
    /\ origin = <<>>
    /\ result = NoResult

\* the plans of the objects h holds beyond the first n
NewPlans(h, n) == [i \in 1..(Len(h) - n) |-> PlanOf(h, n + i)]

\* the bookkeeping of a constructor or combinator call that returned object
\* c.id of heap c.heap
Returned(c, org) ==
    /\ heap' = c.heap
    /\ snap' = snap \o NewPlans(c.heap, Len(heap))
    /\ origin' = origin \o [i \in 1..(Len(c.heap) - Len(heap)) |->
                              IF Len(heap) + i = c.id THEN org ELSE NoOrigin]
    /\ handles' = handles \cup {c.id}
    /\ UNCHANGED <<result, notGraphVars>>

\* Graph.graph_from_iter(name)
GraphFromIter(name) ==
    /\ Cardinality(handles) < MaxGraphs
    /\ Returned([heap |-> Append(heap, NewGraph(name, NoParser)),
                 id |-> Len(heap) + 1], NoOrigin)

\* Graph.graph_from_file(filename, parser)
GraphFromFile(filename, parser) ==
    /\ Cardinality(handles) < MaxGraphs
    /\ Returned([heap |-> Append(heap, NewGraph(filename, parser)),
                 id |-> Len(heap) + 1], NoOrigin)

\* self.map(mapper)
Map(self) ==
    /\ Cardinality(handles) < MaxGraphs
    /\ Returned(Chain(heap, self, <<"Map">>),
                [receiver |-> self, stage |-> <<"Map">>])

\* self.reduce(reducer, keys)
Reduce(self) ==
    /\ Cardinality(handles) < MaxGraphs
    /\ Returned(Chain(heap, self, <<"Reduce">>),
                [receiver |-> self, stage |-> <<"Reduce">>])

\* self.sort(keys)
Sort(self) ==
    /\ Cardinality(handles) < MaxGraphs
    /\ Returned(Chain(heap, self, <<"Sort">>),
                [receiver |-> self, stage |-> <<"Sort">>])

\* self.join(joiner, join_graph, keys)
Join(self, join_graph) ==
    /\ Cardinality(handles) < MaxGraphs
    /\ Returned(Chain(heap, self, <<"Join", join_graph>>),
                [receiver |-> self,
                 stage |-> <<"Join", PlanOf(heap, join_graph)>>])

\* self.gen_run(**kwargs) / self.run(**kwargs); the copies the call worked on
\* are unreachable once it returns
Run(self, kwargs) ==
    LET r == GenRun(heap, self, kwargs)
    IN /\ heap' = SubSeq(r.heap, 1, Len(heap))
       /\ result' = [self |-> self, kwargs |-> kwargs, status |-> r.status,
                     calls |-> r.calls, object |-> r.object]
       /\ UNCHANGED <<snap, handles, origin, notGraphVars>>

\* the producers the caller passes to run: none, or one for every name
KwargsChoices == {{}, SourceNames}

NextGraph ==
    \/ \E name \in SourceNames : GraphFromIter(name)
    \/ \E name \in SourceNames, parser \in Parsers : GraphFromFile(name, parser)
    \/ \E self \in handles : Map(self)
    \/ \E self \in handles : Reduce(self)
    \/ \E self \in handles : Sort(self)
    \/ \E self \in handles, join_graph \in handles : Join(self, join_graph)
    \/ \E self \in handles, kwargs \in KwargsChoices : Run(self, kwargs)

----------------------------------------------------------------------------
(* The stream operation under execution, when none is *)

NoStage == [op |-> "none", fn |-> "none", keys |-> <<>>, columns |-> <<>>,
            column |-> "", n |-> 0, suffix_a |-> "", suffix_b |-> ""]

\* no stream operation is in use
NoOp ==
    /\ stage = NoStage
    /\ rows = <<>>
    /\ rows_b = <<>>
    /\ pos = 0
    /\ pos_b = 0
    /\ previous_key = <<>>
    /\ group_block = <<>>
    /\ key_a = <<>>
    /\ group_a = <<>>
    /\ key_b = <<>>
    /\ group_b = <<>>
    /\ out = <<>>
    /\ calls = <<>>
    /\ status = "new"

----------------------------------------------------------------------------
(* A Queue object under arbitrary calls: the plan of a graph *)

\* the element lists the combinators push: [op] or [op, join_graph]; graph 1
\* is the right graph of every join element
QueueElements == {<<"Map">>, <<"Sort">>, <<"Join", 1>>}

SeqsUpTo(S, n) == UNION {[1..k -> S] : k \in 0..n}

\* the stand-alone Queue is not in use
NoQueue ==
    /\ queue = QueueNew(<<>>)
    /\ pushed = <<>>
    /\ popped = <<>>

\* Queue(sequence)
InitQueue ==
    /\ NoGraphs
    /\ NoOp
    /\ \E sequence \in SeqsUpTo(QueueElements, MaxPush) :
          /\ queue = QueueNew(sequence)
          /\ pushed = sequence
          /\ popped = <<>>

\* queue.push(element)
Push(element) ==
    /\ Len(pushed) < MaxPush
    /\ queue' = QueuePush(queue, element)
    /\ pushed' = Append(pushed, element)
    /\ UNCHANGED <<popped, notQueueVars>>

\* queue.pop() while queue.size() > 0
Pop ==
    /\ QueueSize(queue) > 0
    /\ queue' = QueuePop(queue).queue
    /\ popped' = Append(popped, QueuePop(queue).element)
    /\ UNCHANGED <<pushed, notQueueVars>>

NextQueue ==
    \/ \E element \in QueueElements : Push(element)
    \/ Pop

\* a heap of two graphs: graph 1 has no stages, graph 2 has q as its plan
PlanHeap(q) ==
    << NewGraph(<<"d">>, NoParser),
       [NewGraph(<<"d">>, NoParser) EXCEPT !.queue = q] >>

\* the stream graph 2 of PlanHeap(q) is run into
StreamOf(q) == GenRun(PlanHeap(q), 2, {<<"d">>}).object

----------------------------------------------------------------------------
(* Rows and streams *)

\* values of the key column "k" and of the payload column "v"
KeyVals == {1, 2}
Payloads == {1, 2}

\* the rows of the streams: a key and a payload, or a row without key column
StreamRows ==
    {[k |-> key, v |-> p] : key \in KeyVals, p \in Payloads} \cup {[v |-> 1]}

\* the key lists of Reduce and Join
KeyLists == {<<>>, <<"k">>}

\* row[k] raises KeyError for some k of keys
LacksKey(row, keys) == \E i \in 1..Len(keys) : keys[i] \notin DOMAIN row

\* [x[k] for k in keys]
KeyList(row, keys) == [i \in 1..Len(keys) |-> row[keys[i]]]

\* {k: row[k] for k in keys}
KeyDict(row, keys) == [c \in Range(keys) |-> row[c]]

\* a <= b in the place of a < b
ListLessOrEqual(a, b) ==
    \/ \E i \in 1..Len(a) :
          /\ i <= Len(b)
          /\ a[i] < b[i]
          /\ \A j \in 1..(i - 1) : a[j] = b[j]
    \/ /\ Len(a) <= Len(b)
       /\ \A j \in 1..Len(a) : a[j] = b[j]

\* Python's list comparison a < b
ListLess(a, b) ==
    \/ \E i \in 1..Len(a) :
          /\ i <= Len(b)
          /\ a[i] < b[i]
          /\ \A j \in 1..(i - 1) : a[j] = b[j]
    \/ /\ Len(a) < Len(b)
       /\ \A j \in 1..Len(a) : a[j] = b[j]

\* the concatenation of a sequence of sequences
RECURSIVE Flatten(_)
Flatten(ss) == IF ss = <<>> THEN <<>> ELSE Head(ss) \o Flatten(Tail(ss))

----------------------------------------------------------------------------
(* Reducers *)

\* FirstReducer.__call__(group_key, rows)
FirstReducer(group_key, group) ==
    IF Len(group) = 0 THEN <<>> ELSE <<group[1]>>

\* Count.__call__(group_key, rows): row is the last row of the group
Count(column, group_key, group) ==
    LET row == group[Len(group)]
        kept == (DOMAIN row) \cap Range(group_key)
    IN << [c \in kept \cup {column} |->
              IF c = column THEN Len(group) ELSE row[c]] >>

\* the heap TopN builds: (-row[self.column_max], np.random.uniform(), row)
\* for every row, uniform[i] being the number drawn for row i
TopNHeap(column_max, group, uniform) ==
    [i \in 1..Len(group) |-> <<0 - group[i][column_max], uniform[i], i>>]

\* the entries of heap at the positions S in the order heappop returns them:
\* smallest (-value, uniform) first
RECURSIVE HeapPops(_, _)
HeapPops(entries, S) ==
    IF S = {} THEN <<>>
    ELSE LET m == CHOOSE i \in S :
                      \A j \in S \ {i} :
                          ListLess(<<entries[i][1], entries[i][2]>>,
                                   <<entries[j][1], entries[j][2]>>)
         IN <<entries[m]>> \o HeapPops(entries, S \ {m})

\* range(min(self.n, len(heap)))
TopNCount(n, size) ==
    IF n <= 0 THEN 0 ELSE IF n < size THEN n ELSE size

\* a TopN whose heap holds row[self.column_max] in the place of its negation
TopNSmallest(column_max, n, group, uniform) ==
    LET entries == [i \in 1..Len(group) |->
                    <<group[i][column_max], uniform[i], i>>]
        pops == HeapPops(entries, 1..Len(group))
    IN [i \in 1..TopNCount(n, Len(group)) |-> group[pops[i][3]]]

\* TopN.__call__(group_key, rows)
TopN(column_max, n, group, uniform) ==
    LET entries == TopNHeap(column_max, group, uniform)
        pops == HeapPops(entries, 1..Len(group))
    IN [i \in 1..TopNCount(n, Len(group)) |-> group[pops[i][3]]]

\* the numbers np.random.uniform() can return for a group of n rows, by
\* their order: no two alike
Uniforms(n) == {u \in [1..n -> 1..n] : \A i, j \in 1..n : u[i] = u[j] => i = j}

\* the columns TopN is given
TopNColumns == {"k", "v"}

\* the column lists given to Project, Product and MultiSum
ColumnLists == {<<"k">>, <<"v">>, <<"k", "v">>}

\* sum_score = 0; for row in rows: sum_score += row[column]
RECURSIVE SumOf(_, _)
SumOf(group, column) ==
    IF group = <<>> THEN 0
    ELSE Head(group)[column] + SumOf(Tail(group), column)

\* Sum.__call__(group_key, rows): row is the last row of the group
Sum(column, group_key, group) ==
    LET row == group[Len(group)]
        kept == (DOMAIN row) \cap Range(group_key)
    IN << [c \in kept \cup {column} |->
              IF c = column THEN SumOf(group, column) ELSE row[c]] >>

\* a MultiSum that sums its first column into every column
MultiSumFirstColumn(columns, group_key, group) ==
    LET row == group[Len(group)]
        kept == (DOMAIN row) \cap Range(group_key)
    IN << [c \in kept \cup Range(columns) |->
              IF c \in Range(columns) THEN SumOf(group, columns[1])
              ELSE row[c]] >>

\* MultiSum.__call__(group_key, rows)
MultiSum(columns, group_key, group) ==
    LET row == group[Len(group)]
        kept == (DOMAIN row) \cap Range(group_key)
    IN << [c \in kept \cup Range(columns) |->
              IF c \in Range(columns) THEN SumOf(group, c) ELSE row[c]] >>

ReducerNames == {"FirstReducer", "Count", "Sum", "MultiSum"}

\* the reducers given to Reduce: FirstReducer(), Count(column), Sum(column)
\* and MultiSum(columns), as the fields fn, column and columns of the stage
Reducers ==
    {[fn |-> "FirstReducer", column |-> "", columns |-> <<>>]}
    \cup {[fn |-> "Count", column |-> c, columns |-> <<>>] :
              c \in {"count", "k"}}
    \cup {[fn |-> "Sum", column |-> c, columns |-> <<>>] : c \in {"v", "k"}}
    \cup {[fn |-> "MultiSum", column |-> "", columns |-> cs] :
              cs \in ColumnLists}

\* self.reducer(self.keys, group_block) raises KeyError at row[column]
ReducerRaises(st, group) ==
    \/ st.fn = "Sum" /\ \E i \in 1..Len(group) : st.column \notin DOMAIN group[i]
    \/ st.fn = "MultiSum" /\ \E i \in 1..Len(group) : LacksKey(group[i], st.columns)

\* self.reducer(self.keys, group_block)
CallReducer(st, group) ==
    CASE st.fn = "FirstReducer" -> FirstReducer(st.keys, group)
      [] st.fn = "Count" -> Count(st.column, st.keys, group)
      [] st.fn = "Sum" -> Sum(st.column, st.keys, group)
      [] st.fn = "MultiSum" -> MultiSum(st.columns, st.keys, group)

----------------------------------------------------------------------------
(* Joiners *)

\* the elements of a finite set in a fixed order (the iteration of a Python
\* set; on the rows modelled here no two columns of one iteration write the
\* same name, so the order does not show)
RECURSIVE SetSeq(_)
SetSeq(S) ==
    IF S = {} THEN <<>>
    ELSE LET x == CHOOSE y \in S : TRUE
         IN <<x>> \o SetSeq(S \ {x})

\* the dict built by the assignments d[w[1]] = w[2], for w in writes, in order
DictOf(writes) ==
    [n \in {writes[i][1] : i \in 1..Len(writes)} |->
        LET last == CHOOSE i \in 1..Len(writes) :
                        /\ writes[i][1] = n
                        /\ \A j \in (i + 1)..Len(writes) : writes[j][1] # n
        IN writes[last][2]]

\* join_dict with the two suffixes exchanged
InnerRowSwapped(keys, row_a, row_b, suffix_a, suffix_b) ==
    LET intersection == (DOMAIN row_a) \cap (DOMAIN row_b)
        only_a == SetSeq((DOMAIN row_a) \ intersection)
        only_b == SetSeq((DOMAIN row_b) \ intersection)
        both == SetSeq(intersection \ Range(keys))
    IN DictOf([i \in 1..Len(only_a) |-> <<only_a[i], row_a[only_a[i]]>>]
              \o [i \in 1..Len(only_b) |-> <<only_b[i], row_b[only_b[i]]>>]
              \o [i \in 1..Len(keys) |-> <<keys[i], row_a[keys[i]]>>]
              \o Flatten([i \in 1..Len(both) |->
                            << <<both[i] \o suffix_b, row_a[both[i]]>>,
                               <<both[i] \o suffix_a, row_b[both[i]]>> >>]))

\* the body of the two loops of InnerJoiner.__call__: join_dict for one pair
InnerRow(keys, row_a, row_b, suffix_a, suffix_b) ==
    LET intersection == (DOMAIN row_a) \cap (DOMAIN row_b)
        only_a == SetSeq((DOMAIN row_a) \ intersection)
        only_b == SetSeq((DOMAIN row_b) \ intersection)
        both == SetSeq(intersection \ Range(keys))
    IN DictOf([i \in 1..Len(only_a) |-> <<only_a[i], row_a[only_a[i]]>>]
              \o [i \in 1..Len(only_b) |-> <<only_b[i], row_b[only_b[i]]>>]
              \o [i \in 1..Len(keys) |-> <<keys[i], row_a[keys[i]]>>]
              \o Flatten([i \in 1..Len(both) |->
                            << <<both[i] \o suffix_a, row_a[both[i]]>>,
                               <<both[i] \o suffix_b, row_b[both[i]]>> >>]))

\* join_dict = first.copy(); join_dict.update(second)
Update(first, second) ==
    [c \in (DOMAIN first) \cup (DOMAIN second) |->
        IF c \in DOMAIN second THEN second[c] ELSE first[c]]

\* rows_b iterated directly instead of list(rows_b): the one-pass iterator
\* is used up by the first left row
InnerJoinerUnbuffered(keys, group1, group2, suffix_a, suffix_b) ==
    Flatten([i \in 1..Len(group1) |->
               IF i > 1 THEN <<>>
               ELSE [j \in 1..Len(group2) |->
                       InnerRow(keys, group1[i], group2[j],
                                suffix_a, suffix_b)]])

\* InnerJoiner.__call__(keys, rows_a, rows_b)
InnerJoiner(keys, group1, group2, suffix_a, suffix_b) ==
    Flatten([i \in 1..Len(group1) |->
               [j \in 1..Len(group2) |->
                  InnerRow(keys, group1[i], group2[j], suffix_a, suffix_b)]])

\* OuterJoiner without its last loop, over the right rows of an empty left
OuterJoinerNoRight(keys, group1, group2) ==
    Flatten([i \in 1..Len(group1) |->
               (IF Len(group2) = 0 THEN <<group1[i]>> ELSE <<>>)
               \o [j \in 1..Len(group2) |-> Update(group1[i], group2[j])]])

\* OuterJoiner.__call__(keys, rows_a, rows_b)
OuterJoiner(keys, group1, group2) ==
    Flatten([i \in 1..Len(group1) |->
               (IF Len(group2) = 0 THEN <<group1[i]>> ELSE <<>>)
               \o [j \in 1..Len(group2) |-> Update(group1[i], group2[j])]])
    \o (IF Len(group1) = 0 THEN group2 ELSE <<>>)

\* a LeftJoiner with its two loops exchanged
LeftJoinerRightMajor(keys, group1, group2) ==
    IF Len(group2) = 0 THEN group1
    ELSE Flatten([j \in 1..Len(group2) |->
                    [i \in 1..Len(group1) |-> Update(group1[i], group2[j])]])

\* LeftJoiner.__call__(keys, rows_a, rows_b)
LeftJoiner(keys, group1, group2) ==
    Flatten([i \in 1..Len(group1) |->
               (IF Len(group2) = 0 THEN <<group1[i]>> ELSE <<>>)
               \o [j \in 1..Len(group2) |-> Update(group1[i], group2[j])]])

\* RightJoiner.__call__(keys, rows_a, rows_b)
RightJoiner(keys, group1, group2) ==
    Flatten([j \in 1..Len(group2) |->
               (IF Len(group1) = 0 THEN <<group2[j]>> ELSE <<>>)
               \o [i \in 1..Len(group1) |-> Update(group2[j], group1[i])]])

JoinerNames == {"InnerJoiner", "OuterJoiner", "LeftJoiner", "RightJoiner"}

\* self.joiner(self.keys, group1, group2)
CallJoiner(st, group1, group2) ==
    CASE st.fn = "InnerJoiner" ->
             InnerJoiner(st.keys, group1, group2, st.suffix_a, st.suffix_b)
      [] st.fn = "OuterJoiner" -> OuterJoiner(st.keys, group1, group2)
      [] st.fn = "LeftJoiner" -> LeftJoiner(st.keys, group1, group2)
      [] st.fn = "RightJoiner" -> RightJoiner(st.keys, group1, group2)

----------------------------------------------------------------------------
(* Mappers *)

\* a projection that keeps every column
ProjectKeepAll(columns, row) == <<row>>

\* Project.__call__(row)
Project(columns, row) ==
    << [c \in (DOMAIN row) \cap Range(columns) |-> row[c]] >>

\* product = 1; for key in self.columns: product *= row[key]
RECURSIVE ProductOf(_, _)
ProductOf(columns, row) ==
    IF columns = <<>> THEN 1
    ELSE row[Head(columns)] * ProductOf(Tail(columns), row)

\* Product.__call__(row): the row object after
\* row[self.result_column] = product
ProductRow(columns, result_column, row) ==
    [c \in (DOMAIN row) \cup {result_column} |->
        IF c = result_column THEN ProductOf(columns, row) ELSE row[c]]

\* Product.__call__(row): the row yielded, {k: v for k, v in row.items()}
Product(columns, result_column, row) ==
    << ProductRow(columns, result_column, row) >>

\* the columns Product stores its result in: a new one, or one the rows have
ResultColumns == {"p", "v"}

MapperNames == {"Project", "Product"}

\* self.mapper(row) raises KeyError
MapperRaises(st, row) == st.fn = "Product" /\ LacksKey(row, st.columns)

\* self.mapper(row): the rows yielded
CallMapper(st, row) ==
    IF st.fn = "Project" THEN Project(st.columns, row)
    ELSE Product(st.columns, st.column, row)

\* the row object handed to self.mapper(row), after the call
RowAfter(st, row) ==
    IF st.fn = "Project" THEN row
    ELSE ProductRow(st.columns, st.column, row)

----------------------------------------------------------------------------
(* The operation under execution *)

\* the locals of an operation that has not started
Fresh ==
    /\ pos = 0
    /\ pos_b = 0
    /\ previous_key = <<>>
    /\ group_block = <<>>
    /\ key_a = <<>>
    /\ group_a = <<>>
    /\ key_b = <<>>
    /\ group_b = <<>>
    /\ out = <<>>
    /\ calls = <<>>
    /\ status = "new"

\* Map(Project(columns)) or Map(Product(columns, result_column)) over a
\* stream
InitMap ==
    /\ \E columns \in ColumnLists :
          \/ stage = [NoStage EXCEPT !.op = "Map", !.fn = "Project",
                                     !.columns = columns]
          \/ \E result_column \in ResultColumns :
                stage = [NoStage EXCEPT !.op = "Map", !.fn = "Product",
                                        !.columns = columns,
                                        !.column = result_column]
    /\ rows \in SeqsUpTo(StreamRows, MaxRows)
    /\ rows_b = <<>>
    /\ Fresh

\* Reduce(reducer, keys) over a stream
InitReduce ==
    /\ \E keys \in KeyLists, reducer \in Reducers :
          stage = [NoStage EXCEPT !.op = "Reduce", !.fn = reducer.fn,
                                  !.column = reducer.column,
                                  !.columns = reducer.columns,
                                  !.keys = keys]
    /\ rows \in SeqsUpTo(StreamRows, MaxRows)
    /\ rows_b = <<>>
    /\ Fresh

\* Join(joiner, keys) over two streams; the joiner has the default suffixes
InitJoin ==
    /\ \E keys \in KeyLists, fn \in JoinerNames :
          stage = [NoStage EXCEPT !.op = "Join", !.fn = fn, !.keys = keys,
                                  !.suffix_a = "_1", !.suffix_b = "_2"]
    /\ rows \in SeqsUpTo(StreamRows, MaxSide)
    /\ rows_b \in SeqsUpTo(StreamRows, MaxSide)
    /\ Fresh

\* TopN(column, n) called on a group of rows
InitTopN ==
    /\ \E column \in TopNColumns, n \in 0..(MaxRows + 1) :
          stage = [NoStage EXCEPT !.op = "Reducer", !.fn = "TopN",
                                  !.column = column, !.n = n]
    /\ rows \in SeqsUpTo(StreamRows, MaxRows)
    /\ rows_b = <<>>
    /\ Fresh

\* the rows a joiner is called on directly, one row a side: the left row has
\* "k" and any of "v", "x", "v_1", the right row "k" and any of "v", "y"; they
\* agree on "k" and differ on every other column they share
PairRowsA ==
    {[c \in {"k"} \cup S |-> IF c = "v_1" THEN 3 ELSE 1] :
        S \in SUBSET {"v", "x", "v_1"}}
PairRowsB ==
    {[c \in {"k"} \cup S |-> IF c = "k" THEN 1 ELSE 2] : S \in SUBSET {"v", "y"}}

\* the suffixes a joiner is constructed with
Suffixes == {<<"_1", "_2">>, <<"_1", "_1">>, <<"", "_2">>}

\* joiner(keys, [row_a], [row_b]) for a joiner built with any suffixes
InitJoiner ==
    /\ \E keys \in KeyLists, fn \in JoinerNames, sfx \in Suffixes :
          stage = [NoStage EXCEPT !.op = "Joiner", !.fn = fn, !.keys = keys,
                                  !.suffix_a = sfx[1], !.suffix_b = sfx[2]]
    /\ \E row_a \in PairRowsA : rows = <<row_a>>
    /\ \E row_b \in PairRowsB : rows_b = <<row_b>>
    /\ Fresh

----------------------------------------------------------------------------
(* Map.__call__ *)

\* one iteration of "for row in rows: yield from self.mapper(row)"
MapRow ==
    /\ stage.op = "Map"
    /\ status \in {"new", "running"}
    /\ pos < Len(rows)
    /\ LET row == rows[pos + 1]
       IN IF MapperRaises(stage, row)
          THEN /\ status' = "error"
               /\ UNCHANGED <<pos, out, rows>>
          ELSE /\ pos' = pos + 1
               /\ out' = out \o CallMapper(stage, row)
               /\ rows' = [rows EXCEPT ![pos + 1] = RowAfter(stage, row)]
               /\ status' = "running"
    /\ UNCHANGED <<stage, rows_b, pos_b, previous_key, group_block,
                   key_a, group_a, key_b, group_b, calls, notOpVars>>

\* the input is exhausted: the generator returns
MapEnd ==
    /\ stage.op = "Map"
    /\ status \in {"new", "running"}
    /\ pos = Len(rows)
    /\ status' = "done"
    /\ UNCHANGED <<stage, rows, rows_b, pos, pos_b, previous_key, group_block,
                   key_a, group_a, key_b, group_b, out, calls, notOpVars>>

----------------------------------------------------------------------------
(* Reduce.__call__ *)

\* previous_key is None or current_key == previous_key
SameGroup(previous, current_key) ==
    previous = <<>> \/ previous = <<current_key>>

\* a final flush that leaves a last group of one row behind
FlushAtEndOffByOne(block) == Len(block) > 1

\* if len(group_block) > 0, after the loop
FlushAtEnd(block) == Len(block) > 0

\* yield from self.reducer(self.keys, group): the invocation and its rows
Invoke(group) ==
    LET emitted == CallReducer(stage, group)
    IN /\ calls' = Append(calls, [rows_a |-> group, rows_b |-> <<>>,
                                  emitted |-> emitted])
       /\ out' = out \o emitted

\* one iteration of the loop over rows
ReduceRow ==
    /\ stage.op = "Reduce"
    /\ status \in {"new", "running"}
    /\ pos < Len(rows)
    /\ LET row == rows[pos + 1]
       IN IF LacksKey(row, stage.keys)
          THEN /\ status' = "error"
               /\ UNCHANGED <<pos, previous_key, group_block, out, calls>>
          ELSE LET current_key == KeyDict(row, stage.keys)
               IN IF SameGroup(previous_key, current_key)
                  THEN /\ group_block' = Append(group_block, row)
                       /\ previous_key' = <<current_key>>
                       /\ pos' = pos + 1
                       /\ status' = "running"
                       /\ UNCHANGED <<out, calls>>
                  ELSE IF ReducerRaises(stage, group_block)
                  THEN /\ status' = "error"
                       /\ UNCHANGED <<pos, previous_key, group_block, out,
                                      calls>>
                  ELSE /\ Invoke(group_block)
                       /\ group_block' = <<row>>
                       /\ previous_key' = <<current_key>>
                       /\ pos' = pos + 1
                       /\ status' = "running"
    /\ UNCHANGED <<stage, rows, rows_b, pos_b, key_a, group_a, key_b, group_b,
                   notOpVars>>

\* the input is exhausted: flush the last group
ReduceEnd ==
    /\ stage.op = "Reduce"
    /\ status \in {"new", "running"}
    /\ pos = Len(rows)
    /\ IF FlushAtEnd(group_block) /\ ReducerRaises(stage, group_block)
       THEN /\ status' = "error"
            /\ UNCHANGED <<out, calls>>
       ELSE /\ IF FlushAtEnd(group_block)
               THEN Invoke(group_block)
               ELSE UNCHANGED <<out, calls>>
            /\ status' = "done"
    /\ UNCHANGED <<stage, rows, rows_b, pos, pos_b, previous_key, group_block,
                   key_a, group_a, key_b, group_b, notOpVars>>

----------------------------------------------------------------------------
(* Join.__call__ *)

\* the last row of the run of key-equal rows of s that holds row start and
\* reaches row e
RECURSIVE RunEnd(_, _, _, _)
RunEnd(s, keys, start, e) ==
    IF /\ e < Len(s)
       /\ ~LacksKey(s[e + 1], keys)
       /\ KeyList(s[e + 1], keys) = KeyList(s[start], keys)
    THEN RunEnd(s, keys, start, e + 1)
    ELSE e

\* a groupby that makes a group of every row
NextGroupOfOneRow(s, keys, p) ==
    IF p = Len(s)
    THEN [key |-> <<>>, group |-> <<>>, pos |-> p, raised |-> FALSE]
    ELSE IF LacksKey(s[p + 1], keys)
    THEN [key |-> <<>>, group |-> <<>>, pos |-> p, raised |-> TRUE]
    ELSE [key |-> KeyList(s[p + 1], keys),
          group |-> <<s[p + 1]>>,
          pos |-> p + 1,
          raised |-> FALSE]

\* next(gen, empty_gen) for gen = groupby(s, key list), p rows of s lying in
\* the groups before: the key and the group (empty_tuple and empty_iter when s
\* is exhausted), the rows lying in the groups up to this one, and whether the
\* key function raised on the first row of the group
NextGroup(s, keys, p) ==
    IF p = Len(s)
    THEN [key |-> <<>>, group |-> <<>>, pos |-> p, raised |-> FALSE]
    ELSE IF LacksKey(s[p + 1], keys)
    THEN [key |-> <<>>, group |-> <<>>, pos |-> p, raised |-> TRUE]
    ELSE [key |-> KeyList(s[p + 1], keys),
          group |-> SubSeq(s, p + 1, RunEnd(s, keys, p + 1, p + 1)),
          pos |-> RunEnd(s, keys, p + 1, p + 1),
          raised |-> FALSE]

\* reading on past row p also raises when the keys of row p + 1 are smaller
\* than those of row p: a driver that detects unsorted input
EndRaisesOnDisorder(s, keys, p) ==
    /\ p < Len(s)
    /\ \/ LacksKey(s[p + 1], keys)
       \/ ListLess(KeyList(s[p + 1], keys), KeyList(s[p], keys))

\* reading the group that ends at row p to its end evaluates the key function
\* on row p + 1: it raises there when that row lacks a key column
EndRaises(s, keys, p) == p < Len(s) /\ LacksKey(s[p + 1], keys)

\* yield from self.joiner(self.keys, group1, group2)
InvokeJoiner(group1, group2) ==
    LET emitted == CallJoiner(stage, group1, group2)
    IN /\ calls' = Append(calls, [rows_a |-> group1, rows_b |-> group2,
                                  emitted |-> emitted])
       /\ out' = out \o emitted

\* key_a, group_a = next(gen_a, empty_gen)
AdvanceA ==
    LET n == NextGroup(rows, stage.keys, pos)
    IN /\ key_a' = n.key
       /\ group_a' = n.group
       /\ pos' = n.pos

\* key_b, group_b = next(gen_b, empty_gen)
AdvanceB ==
    LET n == NextGroup(rows_b, stage.keys, pos_b)
    IN /\ key_b' = n.key
       /\ group_b' = n.group
       /\ pos_b' = n.pos

\* an exception leaves the generator
Raise ==
    /\ status' = "error"
    /\ UNCHANGED <<pos, pos_b, key_a, group_a, key_b, group_b, out, calls>>

\* the code before the loops: both groupby objects and their first groups
JoinStart ==
    /\ stage.op = "Join"
    /\ status = "new"
    /\ IF \/ NextGroup(rows, stage.keys, 0).raised
          \/ NextGroup(rows_b, stage.keys, 0).raised
       THEN Raise
       ELSE /\ AdvanceA
            /\ AdvanceB
            /\ status' = "running"
            /\ UNCHANGED <<out, calls>>
    /\ UNCHANGED <<stage, rows, rows_b, previous_key, group_block, notOpVars>>

\* first loop, key_a < key_b: the left group alone
JoinLess ==
    /\ stage.op = "Join"
    /\ status = "running"
    /\ group_a # <<>> /\ group_b # <<>>
    /\ ListLess(key_a, key_b)
    /\ IF EndRaises(rows, stage.keys, pos)
       THEN Raise
       ELSE /\ InvokeJoiner(group_a, <<>>)
            /\ AdvanceA
            /\ UNCHANGED <<pos_b, key_b, group_b, status>>
    /\ UNCHANGED <<stage, rows, rows_b, previous_key, group_block, notOpVars>>

\* first loop, key_a == key_b: both groups
JoinEqual ==
    /\ stage.op = "Join"
    /\ status = "running"
    /\ group_a # <<>> /\ group_b # <<>>
    /\ ~ListLess(key_a, key_b)
    /\ key_a = key_b
    /\ IF \/ EndRaises(rows, stage.keys, pos)
          \/ EndRaises(rows_b, stage.keys, pos_b)
       THEN Raise
       ELSE /\ InvokeJoiner(group_a, group_b)
            /\ AdvanceA
            /\ AdvanceB
            /\ UNCHANGED status
    /\ UNCHANGED <<stage, rows, rows_b, previous_key, group_block, notOpVars>>

\* first loop, otherwise: the right group alone
JoinGreater ==
    /\ stage.op = "Join"
    /\ status = "running"
    /\ group_a # <<>> /\ group_b # <<>>
    /\ ~ListLess(key_a, key_b)
    /\ key_a # key_b
    /\ IF EndRaises(rows_b, stage.keys, pos_b)
       THEN Raise
       ELSE /\ InvokeJoiner(<<>>, group_b)
            /\ AdvanceB
            /\ UNCHANGED <<pos, key_a, group_a, status>>
    /\ UNCHANGED <<stage, rows, rows_b, previous_key, group_block, notOpVars>>

\* second loop: the right side is exhausted, the left groups alone
JoinDrainA ==
    /\ stage.op = "Join"
    /\ status = "running"
    /\ group_b = <<>>
    /\ group_a # <<>>
    /\ IF EndRaises(rows, stage.keys, pos)
       THEN Raise
       ELSE /\ InvokeJoiner(group_a, <<>>)
            /\ AdvanceA
            /\ UNCHANGED <<pos_b, key_b, group_b, status>>
    /\ UNCHANGED <<stage, rows, rows_b, previous_key, group_block, notOpVars>>

\* third loop: the left side is exhausted, the right groups alone
JoinDrainB ==
    /\ stage.op = "Join"
    /\ status = "running"
    /\ group_a = <<>>
    /\ group_b # <<>>
    /\ IF EndRaises(rows_b, stage.keys, pos_b)
       THEN Raise
       ELSE /\ InvokeJoiner(<<>>, group_b)
            /\ AdvanceB
            /\ UNCHANGED <<pos, key_a, group_a, status>>
    /\ UNCHANGED <<stage, rows, rows_b, previous_key, group_block, notOpVars>>

\* all three loops are over: the generator returns
JoinEnd ==
    /\ stage.op = "Join"
    /\ status = "running"
    /\ group_a = <<>>
    /\ group_b = <<>>
    /\ status' = "done"
    /\ UNCHANGED <<stage, rows, rows_b, pos, pos_b, previous_key, group_block,
                   key_a, group_a, key_b, group_b, out, calls, notOpVars>>

\* list(joiner(keys, rows, rows_b)): a joiner called on one cell
JoinerCall ==
    /\ stage.op = "Joiner"
    /\ status = "new"
    /\ InvokeJoiner(rows, rows_b)
    /\ status' = "done"
    /\ UNCHANGED <<stage, rows, rows_b, pos, pos_b, previous_key, group_block,
                   key_a, group_a, key_b, group_b, notOpVars>>

\* list(TopN(column, n)(keys, rows)): the reducer called on one group; the
\* numbers it draws are any
TopNCall ==
    /\ stage.op = "Reducer"
    /\ status = "new"
    /\ IF \E i \in 1..Len(rows) : stage.column \notin DOMAIN rows[i]
       THEN /\ status' = "error"
            /\ UNCHANGED <<out, calls>>
       ELSE \E uniform \in Uniforms(Len(rows)) :
               LET emitted == TopN(stage.column, stage.n, rows, uniform)
               IN /\ calls' = Append(calls, [rows_a |-> rows,
                                              rows_b |-> <<>>,
                                              emitted |-> emitted])
                  /\ out' = out \o emitted
                  /\ status' = "done"
    /\ UNCHANGED <<stage, rows, rows_b, pos, pos_b, previous_key, group_block,
                   key_a, group_a, key_b, group_b, notOpVars>>

----------------------------------------------------------------------------
(* Specifications *)

Init ==
    /\ NoGraphs
    /\ NoQueue
    /\ NoOp

Next == NextGraph

\* the caller building and running graphs
Spec == Init /\ [][Next]_vars

\* a Queue under every interleaving of push and pop
SpecQueue == InitQueue /\ [][NextQueue]_vars

\* one stream operation run on every input within the bounds
InitOps ==
    /\ NoGraphs
    /\ NoQueue
    /\ \/ InitMap
       \/ InitReduce
       \/ InitJoin
       \/ InitJoiner
       \/ InitTopN

NextOps ==
    \/ MapRow
    \/ MapEnd
    \/ ReduceRow
    \/ ReduceEnd
    \/ JoinStart
    \/ JoinLess
    \/ JoinEqual
    \/ JoinGreater
    \/ JoinDrainA
    \/ JoinDrainB
    \/ JoinEnd
    \/ JoinerCall
    \/ TopNCall

SpecOps == InitOps /\ [][NextOps]_vars

----------------------------------------------------------------------------
(* C1 *)

\* C1: graphs are immutable.  Whatever combinators and runs have been called,
\* every graph object constructed so far (a right graph of a join included)
\* has the source identifier and the stage sequence it was constructed with,
\* and a combinator's result has the receiver's source and stages followed by
\* exactly the one new stage.
GraphsImmutable ==
    /\ \A i \in 1..Len(heap) : PlanOf(heap, i) = snap[i]
    /\ \A i \in handles :
          origin[i].receiver # 0 =>
              PlanOf(heap, i) =
                  [kwarg_name |-> snap[origin[i].receiver].kwarg_name,
                   stages |-> Append(snap[origin[i].receiver].stages,
                                     origin[i].stage)]

\* a graph with at least two stages, one of them a join, has been run
GraphsImmutableWitness ==
    /\ result.status = "ok"
    /\ Len(snap[result.self].stages) >= 2
    /\ \E i \in 1..Len(snap[result.self].stages) :
          Len(snap[result.self].stages[i]) = 2

----------------------------------------------------------------------------
(* C2 *)

\* the stages gen_run wraps around the source for the elements els, in order
Wrapped(els) ==
    [i \in 1..Len(els) |->
        IF Len(els[i]) = 2
        THEN <<els[i][1], [source |-> <<"kwargs", <<"d">>>>, wrapped |-> <<>>]>>
        ELSE els[i]]

\* C2: the Queue is first-in first-out under every interleaving of push and
\* pop: the elements popped so far are the first elements pushed, in push
\* order; size() is pushes minus pops; and gen_run on a graph holding the
\* queue wraps the source with exactly the remaining elements, each once, in
\* the order they were pushed (the first chained stage innermost).
QueueFifo ==
    /\ Len(popped) <= Len(pushed)
    /\ popped = SubSeq(pushed, 1, Len(popped))
    /\ QueueSize(queue) = Len(pushed) - Len(popped)
    /\ StreamOf(queue).wrapped =
           Wrapped(SubSeq(pushed, Len(popped) + 1, Len(pushed)))

\* pushes and pops have interleaved: an element was popped, and the queue
\* holds elements in both of its lists, two of them different
QueueFifoWitness ==
    /\ Len(popped) >= 1
    /\ Len(queue.front_sequence) >= 1
    /\ Len(queue.back_sequence) >= 1
    /\ queue.front_sequence[1] # queue.back_sequence[1]

----------------------------------------------------------------------------
(* C3 *)

\* every row of s has the key columns
AllKeyed(s, keys) == \A i \in 1..Len(s) : ~LacksKey(s[i], keys)

\* rows r1 and r2 are equal on the key columns
SameKey(r1, r2, keys) == KeyList(r1, keys) = KeyList(r2, keys)

\* key values a come before key values b, column by column (Len(a) = Len(b))
Before(a, b) ==
    \E i \in 1..Len(a) : a[i] < b[i] /\ \A j \in 1..(i - 1) : a[j] = b[j]

\* s is sorted ascending by the key list
SortedBy(s, keys) ==
    /\ AllKeyed(s, keys)
    /\ \A i \in 1..(Len(s) - 1) :
          ~Before(KeyList(s[i + 1], keys), KeyList(s[i], keys))

\* groups are the maximal runs of consecutive key-equal rows of s, in order
IsRuns(groups, s, keys) ==
    /\ Flatten(groups) = s
    /\ \A i \in 1..Len(groups) :
          /\ Len(groups[i]) > 0
          /\ \A m, n \in 1..Len(groups[i]) :
                SameKey(groups[i][m], groups[i][n], keys)
    /\ \A i \in 1..(Len(groups) - 1) :
          ~SameKey(groups[i][Len(groups[i])], groups[i + 1][1], keys)

\* the groups the reducer / the left side of the joiner was invoked with
PassedA == [i \in 1..Len(calls) |-> calls[i].rows_a]

\* C3: on a stream sorted by the keys, whose rows have the columns the
\* reducer reads, Reduce invokes the reducer exactly once
\* per maximal run of key-equal rows, in stream order, with exactly the rows
\* of the run in input order: while the stream is being read the invocations
\* followed by the buffer are the runs of the rows read so far, and at the end
\* the invocations are the runs of the whole stream (the last run is flushed);
\* the reducer never gets an empty group, an empty stream causes no
\* invocation, and no two invocations get the same key values.
ReduceGroups ==
    ( /\ stage.op = "Reduce"
      /\ SortedBy(rows, stage.keys)
      /\ ~ReducerRaises(stage, rows) ) =>
        /\ status # "error"
        /\ \A i \in 1..Len(calls) : Len(calls[i].rows_a) > 0
        /\ status \in {"new", "running"} =>
              IsRuns(PassedA \o (IF group_block = <<>> THEN <<>>
                                 ELSE <<group_block>>),
                     SubSeq(rows, 1, pos), stage.keys)
        /\ status = "done" =>
              /\ IsRuns(PassedA, rows, stage.keys)
              /\ \A i, j \in 1..Len(calls) :
                    i # j => ~SameKey(calls[i].rows_a[1], calls[j].rows_a[1],
                                      stage.keys)
        /\ rows = <<>> => calls = <<>>

\* a sorted stream of two groups, one of them of two rows, has been reduced
ReduceGroupsWitness ==
    /\ stage.op = "Reduce"
    /\ SortedBy(rows, stage.keys)
    /\ status = "done"
    /\ Len(calls) = 2
    /\ \E i \in 1..2 : Len(calls[i].rows_a) = 2

----------------------------------------------------------------------------
(* C4 *)

\* the members of seqs that are not empty, in order
NonEmpty(seqs) == SelectSeq(seqs, LAMBDA g : g # <<>>)

\* the right groups the joiner was invoked with
PassedB == [i \in 1..Len(calls) |-> calls[i].rows_b]

\* the key values of the cell of invocation c
CellKey(c) ==
    IF c.rows_a # <<>> THEN KeyList(c.rows_a[1], stage.keys)
    ELSE KeyList(c.rows_b[1], stage.keys)

\* both streams of the join are sorted ascending by its keys
JoinSorted ==
    /\ stage.op = "Join"
    /\ SortedBy(rows, stage.keys)
    /\ SortedBy(rows_b, stage.keys)

\* C4: on two streams sorted by the keys the Join driver hands every left
\* group and every right group to the joiner exactly once (the left groups of
\* the invocations are the key groups of the left stream, in order, and the
\* same on the right); a cell is never empty on both sides; a left and a right
\* group share a cell iff their key values are equal (so a group whose key
\* the other side lacks, the groups left after the other side is exhausted
\* included, comes with an empty opposite side); the cells come in strictly
\* ascending key order.
JoinCells ==
    JoinSorted =>
        /\ status # "error"
        /\ \A i \in 1..Len(calls) :
              /\ calls[i].rows_a # <<>> \/ calls[i].rows_b # <<>>
              /\ (calls[i].rows_a # <<>> /\ calls[i].rows_b # <<>>) =>
                    SameKey(calls[i].rows_a[1], calls[i].rows_b[1], stage.keys)
        /\ \A i, j \in 1..Len(calls) :
              /\ i < j => Before(CellKey(calls[i]), CellKey(calls[j]))
              /\ ( /\ calls[i].rows_a # <<>>
                   /\ calls[j].rows_b # <<>>
                   /\ SameKey(calls[i].rows_a[1], calls[j].rows_b[1],
                              stage.keys) ) => i = j
        /\ status = "done" =>
              /\ IsRuns(NonEmpty(PassedA), rows, stage.keys)
              /\ IsRuns(NonEmpty(PassedB), rows_b, stage.keys)

\* a join of sorted streams is over that had a group alone and then a cell
\* of a left and a right group
JoinCellsWitness ==
    /\ JoinSorted
    /\ status = "done"
    /\ Len(calls) = 2
    /\ calls[1].rows_a = <<>> \/ calls[1].rows_b = <<>>
    /\ calls[2].rows_a # <<>> /\ calls[2].rows_b # <<>>

----------------------------------------------------------------------------
(* C5 *)

\* the pairs of a left and a right row that are equal on the keys
MatchingPairs ==
    {p \in (1..Len(rows)) \X (1..Len(rows_b)) :
        SameKey(rows[p[1]], rows_b[p[2]], stage.keys)}

\* the row the inner join builds of the pair p
PairRow(p) ==
    InnerRow(stage.keys, rows[p[1]], rows_b[p[2]],
             stage.suffix_a, stage.suffix_b)

\* how often row r occurs in the sequence s
Occurrences(s, r) == Cardinality({n \in 1..Len(s) : s[n] = r})

\* C5: the output of Join(InnerJoiner, K) on streams sorted by K holds exactly
\* one row for each pair of a left and a right row equal on K, and no other
\* row: every row occurs in the output as often as K-equal pairs build it.
InnerJoinPairs ==
    (JoinSorted /\ stage.fn = "InnerJoiner" /\ status = "done") =>
        /\ Len(out) = Cardinality(MatchingPairs)
        /\ \A r \in Range(out) \cup {PairRow(p) : p \in MatchingPairs} :
              Occurrences(out, r) =
                  Cardinality({p \in MatchingPairs : PairRow(p) = r})

\* an inner join of sorted streams is over in which two left rows met two
\* right rows and a group was unmatched
InnerJoinPairsWitness ==
    /\ JoinSorted
    /\ stage.fn = "InnerJoiner"
    /\ stage.keys = <<"k">>
    /\ status = "done"
    /\ Len(out) = 2
    /\ Len(calls) = 2
    /\ \E i \in 1..2 : Len(calls[i].rows_b) = 2

----------------------------------------------------------------------------
(* C8 *)

\* the rows of s whose key values no row of t has
Unmatched(s, t) ==
    SelectSeq(s, LAMBDA r :
                    \A n \in 1..Len(t) : ~SameKey(r, t[n], stage.keys))

\* what the joiner named fn is to emit for a cell with one side empty
AloneRows(fn, c) ==
    CASE fn = "OuterJoiner" -> c.rows_a \o c.rows_b
      [] fn = "LeftJoiner" -> c.rows_a
      [] fn = "RightJoiner" -> c.rows_b
      [] fn = "InnerJoiner" -> <<>>

\* C8: on sorted inputs the cells with an empty side are exactly the unmatched
\* groups, and for them OuterJoiner emits every row of the group unchanged,
\* LeftJoiner the rows of a left group and nothing for a right group,
\* RightJoiner the rows of a right group and nothing for a left group,
\* InnerJoiner nothing.
UnmatchedGroups ==
    JoinSorted =>
        /\ \A i \in 1..Len(calls) :
              (calls[i].rows_a = <<>> \/ calls[i].rows_b = <<>>) =>
                  calls[i].emitted = AloneRows(stage.fn, calls[i])
        /\ status = "done" =>
              /\ Flatten([i \in 1..Len(calls) |->
                            IF calls[i].rows_b = <<>> THEN calls[i].rows_a
                            ELSE <<>>]) = Unmatched(rows, rows_b)
              /\ Flatten([i \in 1..Len(calls) |->
                            IF calls[i].rows_a = <<>> THEN calls[i].rows_b
                            ELSE <<>>]) = Unmatched(rows_b, rows)
              /\ out = Flatten([i \in 1..Len(calls) |-> calls[i].emitted])

\* an outer join of sorted streams is over that emitted the rows of an
\* unmatched left group and of an unmatched right group
UnmatchedGroupsWitness ==
    /\ JoinSorted
    /\ stage.fn = "OuterJoiner"
    /\ status = "done"
    /\ Len(calls) = 2
    /\ calls[1].rows_b = <<>> /\ calls[1].emitted = calls[1].rows_a
    /\ calls[2].rows_a = <<>> /\ calls[2].emitted = calls[2].rows_b
    /\ Len(out) >= 3

----------------------------------------------------------------------------
(* C6 *)

\* the non-key columns both rows have
SharedColumns(la, rb, keys) == ((DOMAIN la) \cap (DOMAIN rb)) \ Range(keys)

\* row j has column c with value x
Has(j, c, x) == c \in DOMAIN j /\ j[c] = x

\* the column layout of the row j joined of the pair (la, rb)
MatchedLayout(j, la, rb, keys, suffix_a, suffix_b) ==
    /\ \A c \in Range(keys) : Has(j, c, la[c])
    /\ \A c \in ((DOMAIN la) \ (DOMAIN rb)) \ Range(keys) : Has(j, c, la[c])
    /\ \A c \in ((DOMAIN rb) \ (DOMAIN la)) \ Range(keys) : Has(j, c, rb[c])
    /\ \A c \in SharedColumns(la, rb, keys) :
          /\ Has(j, c \o suffix_a, la[c])
          /\ Has(j, c \o suffix_b, rb[c])
          /\ c \notin DOMAIN j

\* an InnerJoiner has been called on one row a side
InnerPairDone ==
    /\ stage.op = "Joiner"
    /\ stage.fn = "InnerJoiner"
    /\ status = "done"

\* C6 as claimed, taken at the default suffixes _1 and _2 and the key list
\* ["k"], for every pair of rows: the row joined of a matched pair has each
\* key column once with the left value, each non-key column of one side only
\* under its own name with that side's value, and each shared non-key column
\* c as c+s_a and c+s_b and not as c.
InnerLayoutAnyColumns ==
    ( /\ InnerPairDone
      /\ stage.keys = <<"k">>
      /\ stage.suffix_a = "_1" /\ stage.suffix_b = "_2" ) =>
        /\ Len(out) = 1
        /\ MatchedLayout(out[1], rows[1], rows_b[1], stage.keys,
                         stage.suffix_a, stage.suffix_b)

\* the suffixed names of the shared columns are pairwise different and none
\* of them is a key or a column of either row
NoNameClash(la, rb, keys, suffix_a, suffix_b) ==
    LET shared == SharedColumns(la, rb, keys)
    IN /\ \A c, d \in shared : c \o suffix_a # d \o suffix_b
       /\ \A c \in shared, n \in (DOMAIN la) \cup (DOMAIN rb) \cup Range(keys) :
             c \o suffix_a # n /\ c \o suffix_b # n

\* C6 (amended): the claimed layout holds whenever the suffixed names clash
\* neither with each other nor with a key or a column of either row.
InnerLayout ==
    ( /\ InnerPairDone
      /\ NoNameClash(rows[1], rows_b[1], stage.keys,
                     stage.suffix_a, stage.suffix_b) ) =>
        /\ Len(out) = 1
        /\ MatchedLayout(out[1], rows[1], rows_b[1], stage.keys,
                         stage.suffix_a, stage.suffix_b)

\* the pair of scenario 3 has been joined: key "k", "v" on both sides, "x"
\* on the left only, "y" on the right only, suffixes _1 and _2
InnerLayoutWitness ==
    /\ InnerPairDone
    /\ stage.keys = <<"k">>
    /\ stage.suffix_a = "_1" /\ stage.suffix_b = "_2"
    /\ DOMAIN rows[1] = {"k", "v", "x"}
    /\ DOMAIN rows_b[1] = {"k", "v", "y"}
    /\ out = << [k |-> 1, v_1 |-> 1, v_2 |-> 2, x |-> 1, y |-> 2] >>

----------------------------------------------------------------------------
(* C7 *)

\* sequences s and t hold the same rows, as often
SameRows(s, t) ==
    \A r \in Range(s) \cup Range(t) : Occurrences(s, r) = Occurrences(t, r)

\* C7 as claimed, for joins on the key list ["k"] by joiners with the
\* default suffixes: for a cell with both groups non-empty OuterJoiner,
\* LeftJoiner and RightJoiner emit the rows InnerJoiner emits for it.
MatchedAsInner ==
    ( /\ stage.op = "Join"
      /\ stage.keys = <<"k">>
      /\ stage.fn # "InnerJoiner" ) =>
        \A i \in 1..Len(calls) :
            (calls[i].rows_a # <<>> /\ calls[i].rows_b # <<>>) =>
                SameRows(calls[i].emitted,
                         InnerJoiner(stage.keys, calls[i].rows_a,
                                     calls[i].rows_b,
                                     stage.suffix_a, stage.suffix_b))

----------------------------------------------------------------------------
(* C9 *)

\* C9 as claimed: a Map of Project over a stream with a row that lacks a
\* listed column does not complete.
ProjectMissingIsFatal ==
    (stage.op = "Map" /\ stage.fn = "Project" /\ status = "done") =>
        \A i \in 1..Len(rows) : ~LacksKey(rows[i], stage.columns)

\* C9 (amended): Project never fails; for every input row, with or without
\* all the listed columns, it emits exactly one row, which holds exactly the
\* listed columns the input row has, with the input row's values.
ProjectPresentColumns ==
    (stage.op = "Map" /\ stage.fn = "Project") =>
        /\ status # "error"
        /\ Len(out) = pos
        /\ \A i \in 1..Len(out) :
              /\ DOMAIN out[i] = (DOMAIN rows[i]) \cap Range(stage.columns)
              /\ \A c \in DOMAIN out[i] : out[i][c] = rows[i][c]

\* a stream with a full row and a row lacking a listed column has been
\* projected to the end
ProjectPresentColumnsWitness ==
    /\ stage.op = "Map"
    /\ stage.fn = "Project"
    /\ stage.columns = <<"k", "v">>
    /\ status = "done"
    /\ \E i, j \in 1..Len(rows) :
          /\ ~LacksKey(rows[i], stage.columns)
          /\ LacksKey(rows[j], stage.columns)
          /\ DOMAIN out[j] = {"v"}

----------------------------------------------------------------------------
(* C10 *)

\* a key value re-appears in s after a different key value
KeyReappears(s, keys) ==
    \E i, j, l \in 1..Len(s) :
        /\ i < j /\ j < l
        /\ SameKey(s[i], s[l], keys)
        /\ ~SameKey(s[i], s[j], keys)

\* the keys of s decrease somewhere
KeysDecrease(s, keys) ==
    \E i \in 1..(Len(s) - 1) :
        Before(KeyList(s[i + 1], keys), KeyList(s[i], keys))

\* a Reduce or a Join is given input with all key columns, not sorted
UnsortedInput ==
    \/ /\ stage.op = "Reduce"
       /\ AllKeyed(rows, stage.keys)
       /\ KeyReappears(rows, stage.keys)
    \/ /\ stage.op = "Join"
       /\ AllKeyed(rows, stage.keys)
       /\ AllKeyed(rows_b, stage.keys)
       /\ KeysDecrease(rows, stage.keys) \/ KeysDecrease(rows_b, stage.keys)

\* C10 as claimed: a Reduce or Join given unsorted input does not complete
\* with output.
UnsortedIsFatal == UnsortedInput => status # "done"

\* C10 (amended): unsorted input is not detected.  The run never raises and
\* never takes more rows than the streams hold, so it goes on until it
\* completes; Reduce invokes the reducer once per maximal run of key-equal
\* rows, so that a key that re-appears is reduced again, and Join hands every
\* group of both sides to the joiner once.
UnsortedCompletes ==
    UnsortedInput =>
        /\ status # "error"
        /\ pos <= Len(rows) /\ pos_b <= Len(rows_b)
        /\ status = "done" => (pos = Len(rows) /\ pos_b = Len(rows_b))
        /\ (status = "done" /\ stage.op = "Reduce") =>
              /\ IsRuns(PassedA, rows, stage.keys)
              /\ out = Flatten([i \in 1..Len(calls) |-> calls[i].emitted])
        /\ (status = "done" /\ stage.op = "Join") =>
              /\ IsRuns(NonEmpty(PassedA), rows, stage.keys)
              /\ IsRuns(NonEmpty(PassedB), rows_b, stage.keys)
              /\ out = Flatten([i \in 1..Len(calls) |-> calls[i].emitted])

\* a join with a left stream of decreasing keys has completed with output
UnsortedCompletesWitness ==
    /\ stage.op = "Join"
    /\ UnsortedInput
    /\ KeysDecrease(rows, stage.keys)
    /\ status = "done"
    /\ Len(out) >= 2

----------------------------------------------------------------------------
(* C11 *)

\* C11 as claimed: no step of an operator changes a row of its input
\* streams; every row object the producer supplied keeps the columns and
\* values it had.
RowsNeverMutated == [][rows' = rows /\ rows_b' = rows_b]_vars

----------------------------------------------------------------------------
(* C12 *)

\* s is in non-increasing order of column col
Descending(s, col) ==
    \A i \in 1..(Len(s) - 1) : s[i][col] >= s[i + 1][col]

\* TopN has been called on a group and has returned
TopNDone ==
    /\ stage.op = "Reducer"
    /\ stage.fn = "TopN"
    /\ status = "done"

\* C12: whatever numbers TopN draws, TopN(col, n) on a group emits exactly
\* min(n, group size) rows, all rows of the group and none more often than
\* the group holds it, in non-increasing order of col, and no row of the
\* group left out has a larger col than a row emitted.
TopNLargest ==
    TopNDone =>
        /\ Len(out) = (IF stage.n < Len(rows) THEN stage.n ELSE Len(rows))
        /\ \A r \in Range(out) : Occurrences(out, r) <= Occurrences(rows, r)
        /\ Descending(out, stage.column)
        /\ \A r \in Range(rows) :
              Occurrences(out, r) < Occurrences(rows, r) =>
                  \A e \in Range(out) : e[stage.column] >= r[stage.column]

\* TopN(v, 2) has been called on a group of three rows whose largest v
\* comes last, and has emitted two rows, one of a smaller v
TopNLargestWitness ==
    /\ TopNDone
    /\ stage.column = "v"
    /\ stage.n = 2
    /\ Len(rows) = 3
    /\ rows[1].v = 1 /\ rows[2].v = 1 /\ rows[3].v = 2
    /\ Len(out) = 2
    /\ out[1].v = 2 /\ out[2].v = 1

----------------------------------------------------------------------------
(* C13 *)

\* the aggregate columns of the reducer of stage st
AggregateColumns(st) ==
    IF st.fn = "MultiSum" THEN Range(st.columns) ELSE {st.column}

\* the aggregate of column c over the group: its size for Count, the sum of
\* c over its rows for Sum and MultiSum
Aggregate(st, group, c) ==
    IF st.fn = "Count" THEN Len(group) ELSE SumOf(group, c)

\* a Reduce with Count, Sum or MultiSum has completed on a stream sorted by
\* the keys whose rows have the columns to sum
AggregateDone ==
    /\ stage.op = "Reduce"
    /\ stage.fn \in {"Count", "Sum", "MultiSum"}
    /\ SortedBy(rows, stage.keys)
    /\ ~ReducerRaises(stage, rows)
    /\ status = "done"

\* one output row per group, of exactly the key columns with the group's key
\* values and the aggregate columns with the aggregates; one output row per
\* distinct key value, no two equal on the keys
OneRowPerGroup ==
    /\ Len(out) = Len(calls)
    /\ \A i \in 1..Len(out) :
          /\ calls[i].emitted = <<out[i]>>
          /\ DOMAIN out[i] = Range(stage.keys) \cup AggregateColumns(stage)
          /\ \A c \in Range(stage.keys) : out[i][c] = calls[i].rows_a[1][c]
          /\ \A c \in AggregateColumns(stage) :
                out[i][c] = Aggregate(stage, calls[i].rows_a, c)
    /\ Len(out) = Cardinality({KeyList(r, stage.keys) : r \in Range(rows)})
    /\ \A i, j \in 1..Len(out) :
          i # j => KeyDict(out[i], stage.keys) # KeyDict(out[j], stage.keys)

\* C13 as claimed, for every aggregate column: Reduce with Count, Sum or
\* MultiSum over a sorted stream emits one row per group, of exactly the key
\* columns with the group's key values plus the aggregate columns.
AggregatePerGroupAnyColumn == AggregateDone => OneRowPerGroup

\* C13 (amended): the same, when no aggregate column is one of the keys.
AggregatePerGroup ==
    ( /\ AggregateDone
      /\ AggregateColumns(stage) \cap Range(stage.keys) = {} ) =>
        OneRowPerGroup

\* Sum(v) by key k has completed on a sorted stream of a group of two rows
\* and a group of one
AggregatePerGroupWitness ==
    /\ AggregateDone
    /\ stage.fn = "Sum"
    /\ stage.column = "v"
    /\ stage.keys = <<"k">>
    /\ rows = << [k |-> 1, v |-> 1], [k |-> 1, v |-> 2], [k |-> 2, v |-> 2] >>
    /\ out = << [k |-> 1, v |-> 3], [k |-> 2, v |-> 2] >>

----------------------------------------------------------------------------
(* C14 *)

\* the sum of a sequence of numbers
RECURSIVE Total(_)
Total(s) == IF s = <<>> THEN 0 ELSE Head(s) + Total(Tail(s))

\* graph object id was built by graph_from_iter(name), or chained from such
\* a graph
FromIter(h, id, name) == h[id].kwarg_name = name /\ h[id].parser = NoParser

\* graph object id was built by graph_from_file(name, parser), or chained
\* from such a graph
FromFile(h, id, name, parser) ==
    h[id].kwarg_name = name /\ h[id].parser = parser /\ parser # NoParser

\* how often a run of graph object id executes a graph whose source is the
\* producer name: the graph itself and, at any depth, the right graphs of
\* its joins, once for every join stage
RECURSIVE Executions(_, _, _)
Executions(h, id, name) ==
    LET items == QueueItems(h[id].queue)
    IN (IF FromIter(h, id, name) THEN 1 ELSE 0)
       + Total([i \in 1..Len(items) |->
                   IF Len(items[i]) = 2
                   THEN Executions(h, items[i][2], name) ELSE 0])

\* the same, a graph's source being the producer name when its source
\* identifier is name and does not end in '.txt', however it was built
RECURSIVE ExecutionsByName(_, _, _)
ExecutionsByName(h, id, name) ==
    LET items == QueueItems(h[id].queue)
    IN (IF h[id].kwarg_name = name /\ ~IsTxt(name) THEN 1 ELSE 0)
       + Total([i \in 1..Len(items) |->
                   IF Len(items[i]) = 2
                   THEN ExecutionsByName(h, items[i][2], name) ELSE 0])

\* C14 as claimed: in a run that was given a producer for every name, the
\* producer of a name is invoked once for every execution, the top-level one
\* and those of the right graphs of joins at any depth, of a graph whose
\* source is that name, and never otherwise; the run completes.
ProducerCalls ==
    (result.status # "none" /\ result.kwargs = SourceNames) =>
        /\ result.status = "ok"
        /\ \A name \in SourceNames :
              Occurrences(result.calls, name) =
                  Executions(heap, result.self, name)

\* C14, what the code does: the invocations of the producer of a name in a
\* completed run are the executions of graphs whose source identifier is
\* the name and does not end in '.txt'.
ProducerCallsByName ==
    result.status = "ok" =>
        \A name \in SourceNames :
            Occurrences(result.calls, name) =
                ExecutionsByName(heap, result.self, name)

----------------------------------------------------------------------------
(* C15 *)

\* the graph run has no join stage
NoJoins(h, id) == Refs(h[id]) = {}

\* C15 as claimed: the run of a graph built by graph_from_iter(name), given
\* a producer for the name, takes its rows from that producer, and the run
\* of a graph built by graph_from_file(filename, parser) takes them from
\* the file through the parser, whatever the name.
SourceKindFixed ==
    (result.status # "none" /\ NoJoins(heap, result.self)) =>
        \A name \in SourceNames :
            /\ (FromIter(heap, result.self, name) /\ name \in result.kwargs) =>
                  /\ result.status = "ok"
                  /\ result.object.source = <<"kwargs", name>>
            /\ \A parser \in Parsers :
                  FromFile(heap, result.self, name, parser) =>
                      /\ result.status = "ok"
                      /\ result.object.source = <<"file", name, parser>>

----------------------------------------------------------------------------
(* C16 *)

\* the row the joiner of stage st builds of the left row la and the right
\* row rb
Built(st, la, rb) ==
    CASE st.fn = "InnerJoiner" ->
             InnerRow(st.keys, la, rb, st.suffix_a, st.suffix_b)
      [] st.fn = "RightJoiner" -> Update(rb, la)
      [] OTHER -> Update(la, rb)

\* the rows emitted for cell c are the rows built of its pairs, left-major:
\* all rows of the first left row, in the order of the right group, then all
\* rows of the second left row, and so on
LeftMajor(st, c) ==
    LET m == Len(c.rows_a)
        n == Len(c.rows_b)
    IN /\ Len(c.emitted) = m * n
       /\ \A i \in 1..m, j \in 1..n :
             c.emitted[(i - 1) * n + j] = Built(st, c.rows_a[i], c.rows_b[j])

\* the same, right-major: all rows of the first right row, in the order of
\* the left group, then all rows of the second right row, and so on
RightMajor(st, c) ==
    LET m == Len(c.rows_a)
        n == Len(c.rows_b)
    IN /\ Len(c.emitted) = m * n
       /\ \A i \in 1..m, j \in 1..n :
             c.emitted[(j - 1) * m + i] = Built(st, c.rows_a[i], c.rows_b[j])

\* cell i of a join is a matched cell
MatchedCell(i) ==
    /\ stage.op = "Join"
    /\ i \in 1..Len(calls)
    /\ calls[i].rows_a # <<>>
    /\ calls[i].rows_b # <<>>

\* no two rows of s are alike
AllDifferent(s) == \A i, j \in 1..Len(s) : s[i] = s[j] => i = j

\* C16 as claimed, for the cells of joins on the key list ["k"] whose left
\* rows differ and whose right rows differ: each of the four joiners emits
\* the rows of the Cartesian product left-major.
AllLeftMajor ==
    \A i \in 1..Len(calls) :
        ( /\ MatchedCell(i)
          /\ stage.keys = <<"k">>
          /\ AllDifferent(calls[i].rows_a)
          /\ AllDifferent(calls[i].rows_b) ) =>
            LeftMajor(stage, calls[i])

\* C16 (amended): in every matched cell InnerJoiner, OuterJoiner and
\* LeftJoiner emit the rows of the Cartesian product left-major, and
\* RightJoiner emits them right-major.
ProductOrder ==
    \A i \in 1..Len(calls) :
        MatchedCell(i) =>
            IF stage.fn = "RightJoiner"
            THEN RightMajor(stage, calls[i])
            ELSE LeftMajor(stage, calls[i])

\* a RightJoiner has emitted the four rows of a cell of two different left
\* rows and two right rows
ProductOrderWitness ==
    /\ MatchedCell(1)
    /\ stage.fn = "RightJoiner"
    /\ status = "done"
    /\ Len(calls[1].rows_a) = 2
    /\ Len(calls[1].rows_b) = 2
    /\ calls[1].rows_a[1] # calls[1].rows_a[2]
    /\ Len(out) = 4
    /\ out[1] # out[2]

----------------------------------------------------------------------------
(* C17 *)

\* the number of maximal runs of key-equal rows of s
NumRuns(s, keys) ==
    Cardinality({i \in 1..Len(s) :
                    i = 1 \/ ~SameKey(s[i - 1], s[i], keys)})

\* the rows of the two sides not yet handed to the joiner: those of the
\* current groups and those not yet read
Remaining ==
    (Len(rows) - pos) + Len(group_a) + (Len(rows_b) - pos_b) + Len(group_b)

\* the Join driver has ended: its generator returned or raised
JoinEnded == status \in {"done", "error"}

\* the joiner is invoked at most once per group of either side, the driver
\* returns only when both sides are exhausted, and the rows not yet handed
\* to the joiner are never fewer than none
JoinBounded ==
    stage.op = "Join" =>
        /\ (AllKeyed(rows, stage.keys) /\ AllKeyed(rows_b, stage.keys)) =>
              /\ status # "error"
              /\ Len(calls) <= NumRuns(rows, stage.keys)
                                + NumRuns(rows_b, stage.keys)
        /\ status = "done" =>
              /\ pos = Len(rows) /\ group_a = <<>>
              /\ pos_b = Len(rows_b) /\ group_b = <<>>
        /\ (status = "running" /\ group_a = <<>> /\ group_b = <<>>) =>
              /\ pos = Len(rows)
              /\ pos_b = Len(rows_b)
        /\ Remaining >= 0

\* every iteration of the three loops hands one whole group of one side, or
\* one of each, to the joiner and takes it off the rows remaining
JoinConsumes ==
    (stage.op = "Join" /\ status = "running" /\ status' = "running") =>
        /\ Len(calls') = Len(calls) + 1
        /\ LET c == calls'[Len(calls')]
           IN /\ Len(c.rows_a) + Len(c.rows_b) >= 1
              /\ c.rows_a \in {<<>>, group_a}
              /\ c.rows_b \in {<<>>, group_b}
              /\ Remaining' = Remaining - Len(c.rows_a) - Len(c.rows_b)

\* C17: the Join driver terminates on every pair of finite streams, sorted
\* or not, empty or not, whatever the key list: every iteration of its loops
\* consumes at least one whole group of the left or the right side, the
\* joiner is invoked at most once per group of either side, and the driver
\* returns exactly when both sides are exhausted.  The rows not yet handed
\* to the joiner are finitely many, never fewer than none and fewer after
\* every iteration: the driver ends after finitely many iterations.
JoinTerminates ==
    /\ []JoinBounded
    /\ [][JoinConsumes]_vars

\* a join of an unsorted left stream of two groups with a right stream of
\* two rows has ended after three invocations of the joiner
JoinTerminatesWitness ==
    /\ stage.op = "Join"
    /\ status = "done"
    /\ KeysDecrease(rows, stage.keys)
    /\ Len(rows_b) = 2
    /\ Len(calls) = 3

====
